---- MODULE Spec2Model ----
(***************************************************************************)
(* A state-machine model of src/src/main.rs: the upload / archive /        *)
(* download command-line orchestrator of josh-clsn/gems.                   *)
(*                                                                         *)
(* One invocation of the binary is one behaviour.  The program is a single *)
(* async task, so its state is the values of its locals plus its position  *)
(* (pc); every external call (client init, file read, prompt, put, get,    *)
(* sleep, write, create_dir_all) is one action whose outcome is chosen by  *)
(* the environment.  Counters such as dataPuts and the log writes are      *)
(* history variables: they record what the run has done to the outside.    *)
(***************************************************************************)
EXTENDS Integers, Sequences, FiniteSets, TLC

\* ------------------------------------------------------------------ bounds
\* Largest number of entries of a downloaded archive.
MaxEntries == 3
\* Most invalid lines typed at one yes/no prompt before a valid one.
MaxInvalid == 1

\* ------------------------------------------------------- program constants
\* handle_upload: let max_retries = 50;
max_retries == 50
\* perform_archive_action: let max_retries = 50;
max_retries_archive == 50
\* sleep(Duration::from_secs(5))
delay_secs == 5
\* [u8; 32]
XorNameLen == 32

\* ------------------------------------------------------------ value spaces
\* Bytes values: file contents and fetched objects (an empty and a 1-byte one).
Contents == {<<>>, <<7>>}

Rep(x, n) == [i \in 1..n |-> x]

\* Errors the network client can report for a put or a get.
NetErrors == {"timeout", "quote_failed"}
\* Addresses of the network (32 bytes each).
NetAddrs == {Rep(1, XorNameLen), Rep(2, XorNameLen)}
NoAddr == <<>>

\* Option<T> as a record; the payload of None is a filler of T's type.
SomeStr(v) == [some |-> TRUE, val |-> v]
NoneStr == [some |-> FALSE, val |-> ""]

\* Result<(), Report> of a command, and of perform_archive_action.
Running == [status |-> "running", kind |-> "", attempts |-> 0, err |-> ""]
OkResult == [status |-> "ok", kind |-> "", attempts |-> 0, err |-> ""]
ErrResult(kind) == [status |-> "err", kind |-> kind, attempts |-> 0, err |-> ""]
Exhausted(kind, n, e) == [status |-> "err", kind |-> kind, attempts |-> n, err |-> e]

\* Outcome of one put: Ok((cost, address)) or Err(e).
PutOk(c, a) == [ok |-> TRUE, cost |-> c, addr |-> a, err |-> ""]
PutErr(e) == [ok |-> FALSE, cost |-> 0, addr |-> NoAddr, err |-> e]
PutOutcomes ==
    {PutOk(3, Rep(1, XorNameLen)), PutOk(4, Rep(2, XorNameLen))}
        \cup {PutErr(e) : e \in NetErrors}
NoPut == [ok |-> FALSE, cost |-> 0, addr |-> NoAddr, err |-> ""]

\* Option<(AttoTokens, DataAddress)>
NoUpload == [some |-> FALSE, cost |-> 0, addr |-> NoAddr]
SomeUpload(c, a) == [some |-> TRUE, cost |-> c, addr |-> a]

\* ------------------------------------------------------------------- paths
\* A path is the sequence of its components; ".." is the parent component.
\* A name in NonUtf8Names stands for an OsStr that is not valid UTF-8.
NonUtf8Names == {"b\\xFF"}

\* Mutant of file_name: a path ending in `..` has the base name `..`.
file_name_keeps_dotdot(p) ==
    IF p = <<>> THEN NoneStr ELSE SomeStr(p[Len(p)])

\* Path::file_name: None when the path is empty/root or ends in "..".
file_name(p) ==
    IF p = <<>> \/ p[Len(p)] = ".." THEN NoneStr ELSE SomeStr(p[Len(p)])

\* OsStr::to_str: None when the name is not valid UTF-8.
to_str(n) == IF n \in NonUtf8Names THEN NoneStr ELSE SomeStr(n)

\* Option::unwrap_or
unwrap_or(o, d) == IF o.some THEN o.val ELSE d

\* Path::join with a relative name.
join(dir, name) == Append(dir, name)

\* Path::parent: None for the empty path, else the path without its last component.
parent(p) == IF p = <<>> THEN [some |-> FALSE, val |-> <<>>]
             ELSE [some |-> TRUE, val |-> SubSeq(p, 1, Len(p) - 1)]

\* ----------------------------------------------------------------- prompts
\* Lines the operator can type, as character sequences.
InputLines == {
    <<"y">>, <<"Y", "E", "S", "\n">>, <<" ", "n", "\n">>, <<"N", "o">>,
    <<"m", "a", "y", "b", "e", "\n">>, <<"\n">>, <<"y", " ", "y">> }

Whitespace == {" ", "\n", "\t"}

RECURSIVE trim_start(_)
trim_start(s) ==
    IF s # <<>> /\ s[1] \in Whitespace THEN trim_start(Tail(s)) ELSE s

RECURSIVE trim_end(_)
trim_end(s) ==
    IF s # <<>> /\ s[Len(s)] \in Whitespace THEN trim_end(SubSeq(s, 1, Len(s) - 1)) ELSE s

\* str::trim
trim(s) == trim_end(trim_start(s))

lower_char(c) ==
    CASE c = "Y" -> "y" [] c = "E" -> "e" [] c = "S" -> "s"
      [] c = "N" -> "n" [] c = "O" -> "o" [] OTHER -> c

\* str::to_lowercase
to_lowercase(s) == [i \in DOMAIN s |-> lower_char(s[i])]

\* The match of ask_yes_no: "yes", "no" or "invalid".
parse_yes_no(line) ==
    LET t == to_lowercase(trim(line))
    IN  IF t \in {<<"y">>, <<"y", "e", "s">>} THEN "yes"
        ELSE IF t \in {<<"n">>, <<"n", "o">>} THEN "no"
        ELSE "invalid"

\* ------------------------------------------------------------------- state
VARIABLES
    cmd,                \* cli.command: "upload" | "archive" | "download"
    args,               \* the command's arguments
    env_key,            \* AUTONOMI_PRIVATE_KEY: "absent" | "invalid" | "valid"
    pc,                 \* position of the task
    result,             \* what main returns
    client_ready,       \* Client::init() has connected
    original_data,      \* handle_upload: original_data
    file_metadata,      \* handle_upload: file_metadata (size)
    should_verify,      \* handle_upload: should_verify
    should_archive,     \* handle_upload: should_archive
    invalid,            \* invalid lines typed at the current prompt
    attempt,            \* handle_upload: loop variable of the upload loop
    upload_result,      \* handle_upload: upload_result
    p_args,             \* perform_archive_action: data_addr, original_path, metadata
    archive,            \* perform_archive_action: the PublicArchive built
    p_attempt,          \* perform_archive_action: loop variable
    archive_upload_result, \* perform_archive_action: archive_upload_result
    p_result,           \* perform_archive_action: its return value
    \* history of the run's effects
    fileRead,           \* the input file has been read
    prompts,            \* the yes/no prompts answered so far, in order
    dataPuts,           \* data_put_public calls issued
    dataFailed,         \* data_put_public calls that returned Err
    dataSlept,          \* seconds slept in the upload loop
    lastPut,            \* outcome of the latest data_put_public
    gets,               \* data_get_public calls issued
    lastGetAddr,        \* the address the latest data_get_public asked for
    archivePuts,        \* archive_put_public calls issued
    archiveFailed,      \* archive_put_public calls that returned Err
    archiveSlept,       \* seconds slept in the archive loop
    lastArchivePut,     \* outcome of the latest archive_put_public
    submitted,          \* the archives handed to archive_put_public
    writes,             \* tokio::fs::write calls issued: [path, content, ok]
    verified,           \* outcome of the verification step and the bytes fetched
    fetched_data,       \* the bytes a data_get_public returned, until used
    dl_entries,         \* handle_download: archive.iter(), in order
    idx,                \* handle_download: position of the for loop
    success_count,      \* handle_download: success_count
    error_count,        \* handle_download: error_count
    entryGets,          \* data_get_public calls issued per entry
    fetchFailed,        \* entries whose fetch failed
    writeFailed,        \* entries fetched whose write failed
    archiveLoaded,      \* the archive was fetched and deserialized
    dirs,               \* directories created
    dirCalls,           \* create_dir_all calls issued
    summary             \* the closing line of archive download, once printed

inputVars == <<cmd, args, env_key>>
uploadVars == <<original_data, file_metadata, should_verify, should_archive,
                invalid, attempt, upload_result, fileRead, prompts>>
dataPutVars == <<dataPuts, dataFailed, dataSlept, lastPut>>
archiveVars == <<p_args, archive, p_attempt, archive_upload_result, p_result>>
archivePutVars == <<archivePuts, archiveFailed, archiveSlept, lastArchivePut, submitted>>
fsVars == <<writes>>
getVars == <<gets, lastGetAddr, fetched_data, verified>>
dlVars == <<dl_entries, idx, success_count, error_count, entryGets, fetchFailed,
            writeFailed, archiveLoaded, dirs, dirCalls, summary>>

vars == <<cmd, args, env_key, pc, result, client_ready,
          original_data, file_metadata, should_verify, should_archive,
          invalid, attempt, upload_result,
          p_args, archive, p_attempt, archive_upload_result, p_result,
          fileRead, prompts, dataPuts, dataFailed, dataSlept, lastPut, gets,
          lastGetAddr,
          archivePuts, archiveFailed, archiveSlept, lastArchivePut, submitted,
          writes, verified, fetched_data,
          dl_entries, idx, success_count, error_count, entryGets, fetchFailed,
          writeFailed, archiveLoaded, dirs, dirCalls, summary>>

\* ---------------------------------------------------------------- arguments
\* UploadArgs.file_path: an ordinary name, a name that is not UTF-8, and a
\* path with no base name.
UploadPaths == {<<"docs", "a.txt">>, <<"docs", "b\\xFF">>, <<"docs", "..">>}
OutputDir == <<".">>

NoMetadata == [size |-> 0]
NoPArgs == [data_addr |-> NoAddr, original_path |-> <<>>, metadata |-> NoMetadata]
EmptyArchive == {}
NoVerification == [outcome |-> "none", fetched |-> <<>>]
NoSummary == [printed |-> FALSE, succeeded |-> 0, failed |-> 0]

UploadArgs == {[file_path |-> p, output_dir |-> OutputDir] : p \in UploadPaths}

InitCommon ==
    /\ env_key \in {"absent", "invalid", "valid"}
    /\ pc = "main_init"
    /\ result = Running
    /\ client_ready = FALSE
    /\ original_data = <<>>
    /\ file_metadata = NoMetadata
    /\ should_verify = FALSE
    /\ should_archive = FALSE
    /\ invalid = 0
    /\ attempt = 0
    /\ upload_result = NoUpload
    /\ p_args = NoPArgs
    /\ archive = EmptyArchive
    /\ p_attempt = 0
    /\ archive_upload_result = NoUpload
    /\ p_result = Running
    /\ fileRead = FALSE
    /\ prompts = <<>>
    /\ dataPuts = 0
    /\ dataFailed = 0
    /\ dataSlept = 0
    /\ lastPut = NoPut
    /\ gets = 0
    /\ lastGetAddr = NoAddr
    /\ archivePuts = 0
    /\ archiveFailed = 0
    /\ archiveSlept = 0
    /\ lastArchivePut = NoPut
    /\ submitted = {}
    /\ writes = <<>>
    /\ verified = NoVerification
    /\ fetched_data = <<>>
    /\ dl_entries = <<>>
    /\ idx = 0
    /\ success_count = 0
    /\ error_count = 0
    /\ entryGets = <<>>
    /\ fetchFailed = {}
    /\ writeFailed = {}
    /\ archiveLoaded = FALSE
    /\ dirs = {}
    /\ dirCalls = 0
    /\ summary = NoSummary

InitUpload ==
    /\ cmd = "upload"
    /\ args \in UploadArgs
    /\ InitCommon

\* ---------------------------------------------------------------------- main
Finish(r) ==
    /\ result' = r
    /\ pc' = "done"

\* Client::init().await.wrap_err(..)?
ClientInit ==
    /\ pc = "main_init"
    /\ \E ok \in BOOLEAN :
        IF ok
        THEN /\ client_ready' = TRUE
             /\ pc' = "main_env"
             /\ UNCHANGED result
        ELSE /\ Finish(ErrResult("client_init"))
             /\ UNCHANGED client_ready
    /\ UNCHANGED <<inputVars, uploadVars, dataPutVars, getVars, dlVars, archiveVars,
                   archivePutVars, fsVars>>

\* Mutant of EnvKey: an unset AUTONOMI_PRIVATE_KEY is read as the empty string.
EnvKey_absent_tolerated ==
    /\ pc = "main_env"
    /\ pc' = "main_wallet"
    /\ UNCHANGED result
    /\ UNCHANGED <<inputVars, client_ready, uploadVars, dataPutVars, getVars, dlVars,
                   archiveVars, archivePutVars, fsVars>>

\* env::var("AUTONOMI_PRIVATE_KEY").map_err(..)?
EnvKey ==
    /\ pc = "main_env"
    /\ IF env_key = "absent"
       THEN Finish(ErrResult("env_missing"))
       ELSE /\ pc' = "main_wallet"
            /\ UNCHANGED result
    /\ UNCHANGED <<inputVars, client_ready, uploadVars, dataPutVars, getVars, dlVars,
                   archiveVars, archivePutVars, fsVars>>

\* Wallet::new_from_private_key(..).wrap_err(..)?, then match cli.command
WalletSetup ==
    /\ pc = "main_wallet"
    /\ IF env_key = "invalid"
       THEN Finish(ErrResult("wallet"))
       ELSE /\ pc' = CASE cmd = "upload" -> "u_read"
                       [] cmd = "archive" -> "a_decode"
                       [] OTHER -> "d_decode"
            /\ UNCHANGED result
    /\ UNCHANGED <<inputVars, client_ready, uploadVars, dataPutVars, getVars, dlVars,
                   archiveVars, archivePutVars, fsVars>>

\* ------------------------------------------------------------ handle_upload
\* Mutant of UploadSequence: the archive question is asked after the upload.
UploadSequence_ask_late == <<"u_read", "u_ask_verify", "u_put", "u_ask_archive">>

\* Mutant of UploadSequence: the verification fetch stands where the upload
\* loop should.
UploadSequence_verify_first == <<"u_read", "u_ask_verify", "u_ask_archive", "u_verify">>

\* The order of handle_upload's statements up to the upload loop: read the
\* file, ask about verification, ask about archiving, then the first put.
UploadSequence == <<"u_read", "u_ask_verify", "u_ask_archive", "u_put">>

\* The statement that follows statement p in that order.
StepAfter(p) ==
    UploadSequence[(CHOOSE i \in 1..Len(UploadSequence) : UploadSequence[i] = p) + 1]

\* read(&args.file_path).await.wrap_err_with(..)?, and the metadata
ReadFile ==
    /\ pc = "u_read"
    /\ \/ /\ Finish(ErrResult("read_file"))
          /\ UNCHANGED <<original_data, file_metadata, fileRead>>
       \/ \E content \in Contents :
            /\ original_data' = content
            /\ file_metadata' = [size |-> Len(content)]
            /\ fileRead' = TRUE
            /\ pc' = StepAfter("u_read")
            /\ UNCHANGED result
    /\ UNCHANGED <<inputVars, client_ready, should_verify, should_archive,
                   invalid, attempt, upload_result, prompts, dataPutVars, getVars,
                   dlVars, archiveVars, archivePutVars, fsVars>>

\* One round of ask_yes_no's loop: a read failure returns Err, a valid line
\* returns the answer, an invalid line asks again.  answer is "yes" | "no"
\* when the round returns Ok, "invalid" when it loops, "error" on Err.
AskRound(answer) ==
    \/ /\ answer = "error"
    \/ \E line \in InputLines :
        /\ answer = parse_yes_no(line)
        /\ answer = "invalid" => invalid < MaxInvalid

\* let should_verify = ask_yes_no(..)?
AskVerify ==
    /\ pc = "u_ask_verify"
    /\ \E answer \in {"yes", "no", "invalid", "error"} :
        /\ AskRound(answer)
        /\ CASE answer = "error" ->
                  /\ Finish(ErrResult("prompt"))
                  /\ UNCHANGED <<should_verify, invalid, prompts>>
             [] answer = "invalid" ->
                  /\ invalid' = invalid + 1
                  /\ UNCHANGED <<pc, result, should_verify, prompts>>
             [] OTHER ->
                  /\ should_verify' = (answer = "yes")
                  /\ invalid' = 0
                  /\ prompts' = Append(prompts, "verify")
                  /\ pc' = StepAfter("u_ask_verify")
                  /\ UNCHANGED result
    /\ UNCHANGED <<inputVars, client_ready, original_data, file_metadata,
                   should_archive, attempt, upload_result, fileRead,
                   dataPutVars, getVars, dlVars, archiveVars, archivePutVars, fsVars>>

\* let should_archive = ask_yes_no(..)?
AskArchive ==
    /\ pc = "u_ask_archive"
    /\ \E answer \in {"yes", "no", "invalid", "error"} :
        /\ AskRound(answer)
        /\ CASE answer = "error" ->
                  /\ Finish(ErrResult("prompt"))
                  /\ UNCHANGED <<should_archive, invalid, prompts>>
             [] answer = "invalid" ->
                  /\ invalid' = invalid + 1
                  /\ UNCHANGED <<pc, result, should_archive, prompts>>
             [] OTHER ->
                  /\ should_archive' = (answer = "yes")
                  /\ invalid' = 0
                  /\ prompts' = Append(prompts, "archive")
                  /\ pc' = StepAfter("u_ask_archive")
                  /\ UNCHANGED result
    /\ UNCHANGED <<inputVars, client_ready, original_data, file_metadata,
                   should_verify, attempt, upload_result, fileRead,
                   dataPutVars, getVars, dlVars, archiveVars, archivePutVars, fsVars>>

\* Mutant of data_put_next: the sleep sits after the match, so a successful
\* attempt sleeps and the loop goes round again.
data_put_next_sleep_after_ok(out, att) ==
    IF ~out.ok /\ att = max_retries THEN "done" ELSE "u_sleep"

\* Mutant of data_put_next: the Err arm lacks `if attempt == max_retries`.
data_put_next_no_last_check(out, att) ==
    IF out.ok THEN "u_check" ELSE "u_sleep"

\* Mutant of data_put_next: the last failure is printed and the command
\* carries on with the steps after the upload.
data_put_next_carry_on(out, att) ==
    IF out.ok THEN "u_check"
    ELSE IF att = max_retries THEN "u_verify"
    ELSE "u_sleep"

\* Where the arms of the upload loop's match lead for the outcome of attempt
\* att: Ok breaks out of the loop, the last Err returns, any other Err sleeps.
data_put_next(out, att) ==
    IF out.ok THEN "u_check"
    ELSE IF att = max_retries THEN "done"
    ELSE "u_sleep"

\* One iteration of the upload loop up to its sleep (attempt is 0 before the
\* loop's first iteration, which sets it to 1):
\* client.data_put_public(original_data.clone(), payment.clone()).await
DataPut ==
    /\ pc = "u_put"
    /\ \E out \in PutOutcomes :
        LET att == IF attempt = 0 THEN 1 ELSE attempt
            next == data_put_next(out, att)
        IN  /\ attempt' = att
            /\ dataPuts' = dataPuts + 1
            /\ dataFailed' = IF out.ok THEN dataFailed ELSE dataFailed + 1
            /\ lastPut' = out
            /\ upload_result' = IF out.ok THEN SomeUpload(out.cost, out.addr)
                                ELSE upload_result
            /\ IF next = "done"
               THEN Finish(Exhausted("upload_exhausted", max_retries, out.err))
               ELSE /\ pc' = next
                    /\ UNCHANGED result
    /\ UNCHANGED <<inputVars, client_ready, original_data, file_metadata,
                   should_verify, should_archive, invalid, fileRead,
                   prompts, dataSlept, getVars, dlVars, archiveVars, archivePutVars,
                   fsVars>>

\* sleep(Duration::from_secs(5)).await, then the next iteration of the loop
DataSleep ==
    /\ pc = "u_sleep"
    /\ dataSlept' = dataSlept + delay_secs
    /\ IF attempt < max_retries
       THEN /\ attempt' = attempt + 1
            /\ pc' = "u_put"
       ELSE /\ pc' = "u_check"
            /\ UNCHANGED attempt
    /\ UNCHANGED <<inputVars, result, client_ready, original_data, file_metadata,
                   should_verify, should_archive, invalid, upload_result,
                   fileRead, prompts, dataPuts, dataFailed, lastPut, getVars, dlVars,
                   archiveVars, archivePutVars, fsVars>>

\* Mutant of CheckUpload: the verification step runs whatever was answered.
CheckUpload_always_verify ==
    /\ pc = "u_check"
    /\ IF upload_result.some
       THEN /\ pc' = "u_verify"
            /\ UNCHANGED result
       ELSE Finish(ErrResult("upload_failed"))
    /\ UNCHANGED <<inputVars, client_ready, uploadVars, dataPutVars, getVars, dlVars,
                   archiveVars, archivePutVars, fsVars>>

\* let (cost, data_addr) = upload_result.ok_or_else(..)?; then if should_verify
CheckUpload ==
    /\ pc = "u_check"
    /\ IF upload_result.some
       THEN /\ pc' = IF should_verify THEN "u_verify" ELSE "u_archive"
            /\ UNCHANGED result
       ELSE Finish(ErrResult("upload_failed"))
    /\ UNCHANGED <<inputVars, client_ready, uploadVars, dataPutVars, getVars, dlVars,
                   archiveVars, archivePutVars, fsVars>>

\* Mutant of verify_get_next: a failed verification fetch is tried again.
verify_get_next_retry(ok) == IF ok THEN "u_compare" ELSE "u_verify"

\* Where the arms of the verification fetch's match lead: Ok compares and
\* saves, Err is printed and the step is over.
verify_get_next(ok) == IF ok THEN "u_compare" ELSE "u_archive"

\* match client.data_get_public(&data_addr).await
VerifyGet ==
    /\ pc = "u_verify"
    /\ gets' = gets + 1
    /\ lastGetAddr' = upload_result.addr
    /\ \/ \E fetched \in Contents :
            /\ fetched_data' = fetched
            /\ verified' = [outcome |-> IF original_data = fetched THEN "match"
                                        ELSE "mismatch",
                            fetched |-> fetched]
            /\ pc' = verify_get_next(TRUE)
       \/ \E e \in NetErrors :
            /\ verified' = [outcome |-> "get_failed", fetched |-> <<>>]
            /\ pc' = verify_get_next(FALSE)
            /\ UNCHANGED fetched_data
    /\ UNCHANGED <<inputVars, result, client_ready, uploadVars, dataPutVars, dlVars,
                   archiveVars, archivePutVars, fsVars>>

\* The files on disk that the run's writes produced: the content of the
\* latest successful tokio::fs::write of each path.
Written(log) ==
    {<<log[i].path, log[i].content>> : i \in
        {j \in DOMAIN log : /\ log[j].ok
                            /\ \A k \in DOMAIN log :
                                 (k > j /\ log[k].ok) => log[k].path # log[j].path}}

WriteCall(path, content, ok) == [path |-> path, content |-> content, ok |-> ok]

\* The name of the file saved on a mismatch:
\* file_name.to_str().unwrap_or("downloaded_file_error").to_owned() + ".mismatched"
mismatched_name(name) ==
    unwrap_or(to_str(name), "downloaded_file_error") \o ".mismatched"

\* Mutant of verify_output: the mismatch branch saves original_data.
verify_output_saves_original(name, original, fetched) ==
    IF original = fetched
    THEN [name |-> name, content |-> original]
    ELSE [name |-> mismatched_name(name), content |-> original]

\* The file the verification step saves, for base name `name`:
\* if original_data == fetched_data { (name, original_data) }
\* else { (name + ".mismatched", fetched_data) }
verify_output(name, original, fetched) ==
    IF original = fetched
    THEN [name |-> name, content |-> original]
    ELSE [name |-> mismatched_name(name), content |-> fetched]

\* Mutant of VerifyWrite: the write of the fetched file is followed by `?`.
VerifyWrite_propagates_write_error ==
    /\ pc = "u_compare"
    /\ LET name == file_name(args.file_path)
           out == verify_output(name.val, original_data, fetched_data)
           output_filename == join(args.output_dir, out.name)
       IN  IF ~name.some
           THEN /\ Finish(ErrResult("no_filename"))
                /\ UNCHANGED writes
           ELSE \E ok \in BOOLEAN :
                  /\ writes' = Append(writes, WriteCall(output_filename, out.content, ok))
                  /\ IF ok
                     THEN /\ pc' = "u_archive"
                          /\ UNCHANGED result
                     ELSE Finish(ErrResult("write_verified"))
    /\ fetched_data' = <<>>
    /\ UNCHANGED <<inputVars, client_ready, uploadVars, dataPutVars, gets, lastGetAddr,
                   verified, dlVars, archiveVars, archivePutVars>>

\* Ok(fetched_data) => { if original_data == fetched_data {..} else {..} }
VerifyWrite ==
    /\ pc = "u_compare"
    /\ LET name == file_name(args.file_path)
           out == verify_output(name.val, original_data, fetched_data)
           output_filename == join(args.output_dir, out.name)
       IN  IF ~name.some
           THEN /\ Finish(ErrResult("no_filename"))
                /\ UNCHANGED writes
           ELSE /\ \E ok \in BOOLEAN :
                     writes' = Append(writes, WriteCall(output_filename, out.content, ok))
                /\ pc' = "u_archive"
                /\ UNCHANGED result
    /\ fetched_data' = <<>>
    /\ UNCHANGED <<inputVars, client_ready, uploadVars, dataPutVars, gets, lastGetAddr,
                   verified,
                   dlVars, archiveVars, archivePutVars>>

\* if should_archive { match perform_archive_action(..).await {..} } else {..}; Ok(())
ArchiveDecision ==
    /\ pc = "u_archive"
    /\ IF should_archive
       THEN /\ p_args' = [data_addr |-> upload_result.addr,
                          original_path |-> args.file_path,
                          metadata |-> file_metadata]
            /\ pc' = "p_build"
            /\ UNCHANGED result
       ELSE /\ Finish(OkResult)
            /\ UNCHANGED p_args
    /\ UNCHANGED <<inputVars, client_ready, uploadVars, dataPutVars, getVars, dlVars,
                   archive, p_attempt, archive_upload_result, p_result,
                   archivePutVars, fsVars>>

\* Ok(_) => {}  Err(e) => println!(..); then Ok(())
UploadArchiveReturn ==
    /\ pc = "p_return"
    /\ cmd = "upload"
    /\ Finish(OkResult)
    /\ UNCHANGED <<inputVars, client_ready, uploadVars, dataPutVars, getVars, dlVars,
                   archiveVars, archivePutVars, fsVars>>

\* --------------------------------------------------- perform_archive_action
\* Mutant of add_file: the entry's metadata is Metadata::new_with_size(0)
\* whatever metadata was passed.
add_file_zero_size(arch, path, addr, metadata) ==
    {e \in arch : e.path # path}
        \cup {[path |-> path, addr |-> addr, metadata |-> [size |-> 0]]}

\* PublicArchive::add_file: the map holds one entry per path.
add_file(arch, path, addr, metadata) ==
    {e \in arch : e.path # path}
        \cup {[path |-> path, addr |-> addr, metadata |-> metadata]}

\* let mut archive = PublicArchive::new(); file_name().ok_or_else(..)?; add_file
BuildArchive ==
    /\ pc = "p_build"
    /\ LET name == file_name(p_args.original_path)
       IN  IF ~name.some
           THEN /\ p_result' = ErrResult("no_filename")
                /\ pc' = "p_return"
                /\ UNCHANGED <<archive, p_attempt>>
           ELSE /\ archive' = add_file(EmptyArchive, <<name.val>>,
                                       p_args.data_addr, p_args.metadata)
                /\ p_attempt' = 1
                /\ pc' = "p_put"
                /\ UNCHANGED p_result
    /\ UNCHANGED <<inputVars, result, client_ready, uploadVars, dataPutVars, getVars,
                   dlVars, p_args, archive_upload_result, archivePutVars, fsVars>>

\* Where the arms of the archive loop's match lead for the outcome of attempt
\* att: Ok breaks out of the loop, the last Err returns, any other Err sleeps.
archive_put_next(out, att) ==
    IF out.ok THEN "p_check"
    ELSE IF att = max_retries_archive THEN "p_return"
    ELSE "p_sleep"

\* One iteration of the archive loop up to its sleep:
\* client.archive_put_public(&archive, payment.clone()).await
ArchivePut ==
    /\ pc = "p_put"
    /\ \E out \in PutOutcomes :
        LET next == archive_put_next(out, p_attempt)
        IN  /\ archivePuts' = archivePuts + 1
            /\ archiveFailed' = IF out.ok THEN archiveFailed ELSE archiveFailed + 1
            /\ lastArchivePut' = out
            /\ submitted' = submitted \cup {archive}
            /\ archive_upload_result' = IF out.ok THEN SomeUpload(out.cost, out.addr)
                                        ELSE archive_upload_result
            /\ p_result' = IF next = "p_return"
                           THEN Exhausted("archive_exhausted", max_retries_archive, out.err)
                           ELSE p_result
            /\ pc' = next
    /\ UNCHANGED <<inputVars, result, client_ready, uploadVars, dataPutVars, getVars,
                   dlVars, p_args, archive, p_attempt, archiveSlept, fsVars>>

\* Mutant of ArchiveSleep: the loop goes round without counting its attempts.
ArchiveSleep_unbounded ==
    /\ pc = "p_sleep"
    /\ archiveSlept' = archiveSlept + delay_secs
    /\ pc' = "p_put"
    /\ UNCHANGED p_attempt
    /\ UNCHANGED <<inputVars, result, client_ready, uploadVars, dataPutVars, getVars,
                   dlVars, p_args, archive, archive_upload_result, p_result,
                   archivePuts, archiveFailed, lastArchivePut, submitted, fsVars>>

\* sleep(Duration::from_secs(5)).await, then the next iteration of the loop
ArchiveSleep ==
    /\ pc = "p_sleep"
    /\ archiveSlept' = archiveSlept + delay_secs
    /\ IF p_attempt < max_retries_archive
       THEN /\ p_attempt' = p_attempt + 1
            /\ pc' = "p_put"
       ELSE /\ pc' = "p_check"
            /\ UNCHANGED p_attempt
    /\ UNCHANGED <<inputVars, result, client_ready, uploadVars, dataPutVars, getVars,
                   dlVars, p_args, archive, archive_upload_result, p_result,
                   archivePuts, archiveFailed, lastArchivePut, submitted, fsVars>>

\* let (cost, archive_address) = archive_upload_result.ok_or_else(..)?; Ok(archive_address)
CheckArchive ==
    /\ pc = "p_check"
    /\ p_result' = IF archive_upload_result.some THEN OkResult
                   ELSE ErrResult("archive_failed")
    /\ pc' = "p_return"
    /\ UNCHANGED <<inputVars, result, client_ready, uploadVars, dataPutVars, getVars,
                   dlVars, p_args, archive, p_attempt, archive_upload_result,
                   archivePutVars, fsVars>>

\* ------------------------------------------------------------ address codec
HexLower == <<"0", "1", "2", "3", "4", "5", "6", "7", "8", "9",
              "a", "b", "c", "d", "e", "f">>
HexUpper == <<"0", "1", "2", "3", "4", "5", "6", "7", "8", "9",
              "A", "B", "C", "D", "E", "F">>

\* The value of one hex digit, -1 for any other character.
hex_val(c) ==
    IF \E i \in 1..16 : HexLower[i] = c
    THEN (CHOOSE i \in 1..16 : HexLower[i] = c) - 1
    ELSE IF \E i \in 1..16 : HexUpper[i] = c
    THEN (CHOOSE i \in 1..16 : HexUpper[i] = c) - 1
    ELSE -1

\* hex::decode: odd length and non-hex characters are errors; two digits a byte.
hex_decode(s) ==
    IF Len(s) % 2 # 0
    THEN [ok |-> FALSE, kind |-> "odd_length", bytes |-> <<>>]
    ELSE IF \E i \in 1..Len(s) : hex_val(s[i]) = -1
    THEN [ok |-> FALSE, kind |-> "invalid_hex_character", bytes |-> <<>>]
    ELSE [ok |-> TRUE, kind |-> "",
          bytes |-> [i \in 1..(Len(s) \div 2) |->
                        16 * hex_val(s[2 * i - 1]) + hex_val(s[2 * i])]]

\* Mutant of decode_xorname: the try_into length check is missing.
decode_xorname_no_length_check(s) ==
    LET d == hex_decode(s)
    IN  IF ~d.ok
        THEN [ok |-> FALSE, kind |-> "invalid_hex", len |-> 0, addr |-> NoAddr]
        ELSE [ok |-> TRUE, kind |-> "", len |-> Len(d.bytes), addr |-> d.bytes]

\* hex::decode(..).wrap_err(..)? then <[u8; 32]>::try_from(..).map_err(..)?
decode_xorname(s) ==
    LET d == hex_decode(s)
    IN  IF ~d.ok
        THEN [ok |-> FALSE, kind |-> "invalid_hex", len |-> 0, addr |-> NoAddr]
        ELSE IF Len(d.bytes) # XorNameLen
        THEN [ok |-> FALSE, kind |-> "invalid_length", len |-> Len(d.bytes),
              addr |-> NoAddr]
        ELSE [ok |-> TRUE, kind |-> "", len |-> XorNameLen, addr |-> d.bytes]

\* Address arguments: well-formed ones, and ones of a wrong length or alphabet.
AddressInputs == {
    Rep("a", 64),
    [i \in 1..64 |-> IF i % 2 = 1 THEN "0" ELSE "F"],
    Rep("a", 62), Rep("a", 63), Rep("a", 66),
    Rep("g", 64),
    [i \in 1..64 |-> IF i = 64 THEN "x" ELSE "1"],
    <<>> }

\* ----------------------------------------------------------- handle_archive
\* ArchiveArgs.archive_path, as PathBuf::from reads it.
ArchivePaths == {<<"archived_file">>, <<"docs", "a.txt">>, <<"docs", "..">>, <<>>}

ArchiveArgs ==
    {[data_address_hex |-> h, archive_path |-> p] :
        h \in AddressInputs, p \in ArchivePaths}

InitArchive ==
    /\ cmd = "archive"
    /\ args \in ArchiveArgs
    /\ InitCommon

\* decode the address, Metadata::new_with_size(0), perform_archive_action(..)
ArchiveDecode ==
    /\ pc = "a_decode"
    /\ LET d == decode_xorname(args.data_address_hex)
       IN  IF ~d.ok
           THEN /\ Finish(ErrResult(d.kind))
                /\ UNCHANGED p_args
           ELSE /\ p_args' = [data_addr |-> d.addr,
                              original_path |-> args.archive_path,
                              metadata |-> [size |-> 0]]
                /\ pc' = "p_build"
                /\ UNCHANGED result
    /\ UNCHANGED <<inputVars, client_ready, uploadVars, dataPutVars, getVars, dlVars,
                   archive, p_attempt, archive_upload_result, p_result,
                   archivePutVars, fsVars>>

\* Mutant of ArchiveReturn: the error of perform_archive_action is only
\* printed, as handle_upload does.
ArchiveReturn_swallows_error ==
    /\ pc = "p_return"
    /\ cmd = "archive"
    /\ Finish(OkResult)
    /\ UNCHANGED <<inputVars, client_ready, uploadVars, dataPutVars, getVars, dlVars,
                   archiveVars, archivePutVars, fsVars>>

\* perform_archive_action(..).await?; Ok(())
ArchiveReturn ==
    /\ pc = "p_return"
    /\ cmd = "archive"
    /\ Finish(p_result)
    /\ UNCHANGED <<inputVars, client_ready, uploadVars, dataPutVars, getVars, dlVars,
                   archiveVars, archivePutVars, fsVars>>

\* ---------------------------------------------------------- handle_download
\* Entry paths of an archive, in the order archive.iter() yields them.
EntryPaths == << <<"a.txt">>, <<"b.txt">>, <<"sub", "c.txt">>, <<"sub", "d.txt">> >>

\* The archives a fetch can deserialize to: up to MaxEntries entries.
IsIncreasing(s) == \A i \in 1..(Len(s) - 1) : s[i] < s[i + 1]

EntryLists ==
    UNION {{s \in [1..n -> 1..Len(EntryPaths)] : IsIncreasing(s)} : n \in 0..MaxEntries}

EntryOf(i) ==
    [path |-> EntryPaths[i], addr |-> Rep(i, XorNameLen), metadata |-> [size |-> 1]]

DlArchives == {[k \in DOMAIN s |-> EntryOf(s[k])] : s \in EntryLists}

OutputPaths == {<<"out">>, <<"data", "out">>}

DownloadArgs ==
    {[address_hex |-> h, output_path |-> p, archive |-> a] :
        h \in AddressInputs, p \in OutputPaths, a \in BOOLEAN}

InitDownload ==
    /\ cmd = "download"
    /\ args \in DownloadArgs
    /\ InitCommon

\* decode the address; if args.archive {..} else {..}
DownloadDecode ==
    /\ pc = "d_decode"
    /\ LET d == decode_xorname(args.address_hex)
       IN  IF ~d.ok
           THEN Finish(ErrResult(d.kind))
           ELSE /\ pc' = IF args.archive THEN "d_get_archive" ELSE "d_get_single"
                /\ UNCHANGED result
    /\ UNCHANGED <<inputVars, client_ready, uploadVars, dataPutVars, getVars, dlVars,
                   archiveVars, archivePutVars, fsVars>>

\* Mutant of archive_next: the is_empty check is missing.
archive_next_no_empty_check(entries) == "d_mkdir"

\* if archive.map().is_empty() { return Ok(()) }; otherwise on to create_dir_all
archive_next(entries) == IF entries = <<>> THEN "done" ELSE "d_mkdir"

\* data_get_public(&addr)..?; PublicArchive::from_bytes(..)..?; is_empty => Ok(())
FetchArchive ==
    /\ pc = "d_get_archive"
    /\ gets' = gets + 1
    /\ lastGetAddr' = decode_xorname(args.address_hex).addr
    /\ \/ /\ \E kind \in {"get_archive", "deserialize"} : Finish(ErrResult(kind))
          /\ UNCHANGED <<dl_entries, archiveLoaded>>
       \/ \E a \in DlArchives :
            /\ dl_entries' = a
            /\ archiveLoaded' = TRUE
            /\ IF archive_next(a) = "done"
               THEN Finish(OkResult)
               ELSE /\ pc' = archive_next(a)
                    /\ UNCHANGED result
    /\ UNCHANGED <<inputVars, client_ready, uploadVars, dataPutVars, fetched_data,
                   verified, idx, success_count, error_count, entryGets, fetchFailed,
                   writeFailed, dirs, dirCalls, summary, archiveVars, archivePutVars,
                   fsVars>>

\* create_dir_all(&args.output_path).await.wrap_err_with(..)?; the counters
CreateOutputDir ==
    /\ pc = "d_mkdir"
    /\ dirCalls' = dirCalls + 1
    /\ \E ok \in BOOLEAN :
        IF ok
        THEN /\ dirs' = dirs \cup {args.output_path}
             /\ idx' = 1
             /\ entryGets' = [k \in DOMAIN dl_entries |-> 0]
             /\ pc' = "d_entry_dir"
             /\ UNCHANGED result
        ELSE /\ Finish(ErrResult("create_output_dir"))
             /\ UNCHANGED <<dirs, idx, entryGets>>
    /\ UNCHANGED <<inputVars, client_ready, uploadVars, dataPutVars, getVars,
                   dl_entries, success_count, error_count, fetchFailed, writeFailed,
                   archiveLoaded, summary, archiveVars, archivePutVars, fsVars>>

\* Whether `if let Some(parent_dir) = p.parent() { if !parent_dir.exists() {`
\* reaches create_dir_all when the environment answers exists() with `there`:
\* a directory this run created exists; the empty path does not.
NeedsCreate(p, there) ==
    /\ parent(p).some
    /\ parent(p).val \notin dirs
    /\ parent(p).val = <<>> \/ ~there

\* create_dir_all(dir) can fail, except for the empty path (always Ok).
CanFailCreate(dir) == dir # <<>>

\* The parent-directory block of one entry: create_dir_all(parent_dir)..?
EntryDir ==
    /\ pc = "d_entry_dir"
    /\ LET target_file_path == args.output_path \o dl_entries[idx].path
       IN  \E there \in BOOLEAN, ok \in BOOLEAN :
             IF NeedsCreate(target_file_path, there)
             THEN /\ dirCalls' = dirCalls + 1
                  /\ IF ok \/ ~CanFailCreate(parent(target_file_path).val)
                     THEN /\ dirs' = dirs \cup {parent(target_file_path).val}
                          /\ pc' = "d_entry_get"
                          /\ UNCHANGED result
                     ELSE /\ Finish(ErrResult("create_subdir"))
                          /\ UNCHANGED dirs
             ELSE /\ pc' = "d_entry_get"
                  /\ UNCHANGED <<result, dirs, dirCalls>>
    /\ UNCHANGED <<inputVars, client_ready, uploadVars, dataPutVars, getVars,
                   dl_entries, idx, success_count, error_count, entryGets,
                   fetchFailed, writeFailed, archiveLoaded, summary, archiveVars,
                   archivePutVars, fsVars>>

\* Mutant of count_entry: only a failed fetch counts as an error, a fetched
\* entry counts as a success whether or not its write succeeded.
count_entry_ignores_write(outcome, succeeded, failed) ==
    IF outcome = "get_failed"
    THEN [success_count |-> succeeded, error_count |-> failed + 1]
    ELSE [success_count |-> succeeded + 1, error_count |-> failed]

\* The counters after one entry: success_count += 1 when the entry was saved,
\* error_count += 1 when its fetch or its write failed.
count_entry(outcome, succeeded, failed) ==
    IF outcome = "saved"
    THEN [success_count |-> succeeded + 1, error_count |-> failed]
    ELSE [success_count |-> succeeded, error_count |-> failed + 1]

\* The end of one iteration of the for loop with the counters at c: the next
\* entry, or after the last one the closing println! and Ok(()).
NextEntry(c) ==
    /\ success_count' = c.success_count
    /\ error_count' = c.error_count
    /\ IF idx < Len(dl_entries)
       THEN /\ idx' = idx + 1
            /\ pc' = "d_entry_dir"
            /\ UNCHANGED <<result, summary>>
       ELSE /\ summary' = [printed |-> TRUE, succeeded |-> c.success_count,
                           failed |-> c.error_count]
            /\ Finish(OkResult)
            /\ UNCHANGED idx

\* match client.data_get_public(item_data_addr).await
EntryGet ==
    /\ pc = "d_entry_get"
    /\ gets' = gets + 1
    /\ lastGetAddr' = dl_entries[idx].addr
    /\ entryGets' = [entryGets EXCEPT ![idx] = @ + 1]
    /\ \/ \E item_bytes \in Contents :
            /\ fetched_data' = item_bytes
            /\ pc' = "d_entry_write"
            /\ UNCHANGED <<result, idx, success_count, error_count, fetchFailed,
                           summary>>
       \/ \E e \in NetErrors :
            /\ fetchFailed' = fetchFailed \cup {idx}
            /\ NextEntry(count_entry("get_failed", success_count, error_count))
            /\ UNCHANGED fetched_data
    /\ UNCHANGED <<inputVars, client_ready, uploadVars, dataPutVars, verified,
                   dl_entries, writeFailed, archiveLoaded, dirs, dirCalls,
                   archiveVars, archivePutVars, fsVars>>

\* match write(&target_file_path, item_bytes).await
EntryWrite ==
    /\ pc = "d_entry_write"
    /\ fetched_data' = <<>>
    /\ LET target_file_path == args.output_path \o dl_entries[idx].path
       IN  \E ok \in BOOLEAN :
             /\ writes' = Append(writes, WriteCall(target_file_path, fetched_data, ok))
             /\ writeFailed' = IF ok THEN writeFailed ELSE writeFailed \cup {idx}
             /\ NextEntry(count_entry(IF ok THEN "saved" ELSE "write_failed",
                                      success_count, error_count))
    /\ UNCHANGED <<inputVars, client_ready, uploadVars, dataPutVars, gets, lastGetAddr,
                   verified,
                   dl_entries, entryGets, fetchFailed, archiveLoaded, dirs, dirCalls,
                   archiveVars, archivePutVars>>

\* Single-object mode: client.data_get_public(&addr).await.wrap_err_with(..)?
FetchSingle ==
    /\ pc = "d_get_single"
    /\ gets' = gets + 1
    /\ lastGetAddr' = decode_xorname(args.address_hex).addr
    /\ \/ \E fetched_bytes \in Contents :
            /\ fetched_data' = fetched_bytes
            /\ pc' = "d_single_dir"
            /\ UNCHANGED result
       \/ /\ Finish(ErrResult("get_single"))
          /\ UNCHANGED fetched_data
    /\ UNCHANGED <<inputVars, client_ready, uploadVars, dataPutVars, verified, dlVars,
                   archiveVars, archivePutVars, fsVars>>

\* The parent-directory block of single-object mode
SingleDir ==
    /\ pc = "d_single_dir"
    /\ \E there \in BOOLEAN, ok \in BOOLEAN :
         IF NeedsCreate(args.output_path, there)
         THEN /\ dirCalls' = dirCalls + 1
              /\ IF ok \/ ~CanFailCreate(parent(args.output_path).val)
                 THEN /\ dirs' = dirs \cup {parent(args.output_path).val}
                      /\ pc' = "d_single_write"
                      /\ UNCHANGED result
                 ELSE /\ Finish(ErrResult("create_output_dir"))
                      /\ UNCHANGED dirs
         ELSE /\ pc' = "d_single_write"
              /\ UNCHANGED <<result, dirs, dirCalls>>
    /\ UNCHANGED <<inputVars, client_ready, uploadVars, dataPutVars, getVars,
                   dl_entries, idx, success_count, error_count, entryGets,
                   fetchFailed, writeFailed, archiveLoaded, summary, archiveVars,
                   archivePutVars, fsVars>>

\* Mutant of SingleWrite: a failed write of output_path is only printed.
SingleWrite_swallows_error ==
    /\ pc = "d_single_write"
    /\ fetched_data' = <<>>
    /\ \E ok \in BOOLEAN :
         /\ writes' = Append(writes, WriteCall(args.output_path, fetched_data, ok))
         /\ Finish(OkResult)
    /\ UNCHANGED <<inputVars, client_ready, uploadVars, dataPutVars, gets, lastGetAddr,
                   verified, dlVars, archiveVars, archivePutVars>>

\* write(&args.output_path, fetched_bytes).await.wrap_err_with(..)?; Ok(())
SingleWrite ==
    /\ pc = "d_single_write"
    /\ fetched_data' = <<>>
    /\ \E ok \in BOOLEAN :
         /\ writes' = Append(writes, WriteCall(args.output_path, fetched_data, ok))
         /\ IF ok THEN Finish(OkResult) ELSE Finish(ErrResult("write_single"))
    /\ UNCHANGED <<inputVars, client_ready, uploadVars, dataPutVars, gets, lastGetAddr,
                   verified,
                   dlVars, archiveVars, archivePutVars>>

\* ------------------------------------------------------------ specifications
MainNext == ClientInit \/ EnvKey \/ WalletSetup

UploadNext ==
    \/ ReadFile \/ AskVerify \/ AskArchive
    \/ DataPut \/ DataSleep \/ CheckUpload
    \/ VerifyGet \/ VerifyWrite
    \/ ArchiveDecision \/ UploadArchiveReturn

PerformArchiveNext == BuildArchive \/ ArchivePut \/ ArchiveSleep \/ CheckArchive

ArchiveNext == ArchiveDecode \/ ArchiveReturn

DownloadNext ==
    \/ DownloadDecode \/ FetchArchive \/ CreateOutputDir
    \/ EntryDir \/ EntryGet \/ EntryWrite
    \/ FetchSingle \/ SingleDir \/ SingleWrite

NextUpload == MainNext \/ UploadNext \/ PerformArchiveNext
NextDownload == MainNext \/ DownloadNext

Init == InitUpload \/ InitArchive \/ InitDownload
Next == MainNext \/ UploadNext \/ PerformArchiveNext \/ ArchiveNext \/ DownloadNext

\* Every command.
Spec == Init /\ [][Next]_vars
\* The upload command alone.
SpecUpload == InitUpload /\ [][NextUpload]_vars
\* The download command alone.
SpecDownload == InitDownload /\ [][NextDownload]_vars

\* ------------------------------------------------------------------ claims

\* C1: for the data put of handle_upload and the archive put of
\* perform_archive_action alike: when the put fails k times and then succeeds
\* (k < 50) it has been invoked exactly k+1 times, exactly k delays of 5
\* seconds have passed (none after the success), the loop's result is the
\* (cost, address) of that last attempt, the loop does not end in an error,
\* and no put of that kind follows (the counts stay as they are for the rest
\* of the run).
C1_RetrySucceeds ==
    /\ lastPut.ok <=> upload_result.some
    /\ upload_result.some =>
         /\ upload_result = SomeUpload(lastPut.cost, lastPut.addr)
         /\ dataFailed < max_retries
         /\ dataPuts = dataFailed + 1
         /\ dataSlept = delay_secs * dataFailed
         /\ result.kind \notin {"upload_exhausted", "upload_failed"}
    /\ lastArchivePut.ok <=> archive_upload_result.some
    /\ archive_upload_result.some =>
         /\ archive_upload_result = SomeUpload(lastArchivePut.cost, lastArchivePut.addr)
         /\ archiveFailed < max_retries_archive
         /\ archivePuts = archiveFailed + 1
         /\ archiveSlept = delay_secs * archiveFailed
         /\ pc \in {"p_return", "done"} => p_result = OkResult

\* C1 witness: an upload whose data put succeeded on its 50th attempt and
\* whose archive put succeeded on its 3rd, run to the end.
C1_Witness ==
    /\ pc = "done"
    /\ upload_result.some /\ dataFailed = max_retries - 1
    /\ archive_upload_result.some /\ archiveFailed = 2

\* C2: for both retried writes: the put is never invoked a 51st time; a delay
\* happens only after a failure that leaves attempts (at most 49 delays, one
\* per such failure); when all 50 attempts fail the loop ends, after 50 puts
\* and 49 delays, in an error that carries the count 50 and the error of the
\* 50th attempt; and the loop ends in failure in no other way.
C2_RetryExhausted ==
    /\ dataPuts <= max_retries
    /\ dataSlept <= delay_secs * dataFailed
    /\ dataSlept <= delay_secs * (max_retries - 1)
    /\ dataFailed = max_retries <=> result.kind = "upload_exhausted"
    /\ result.kind = "upload_exhausted" =>
         /\ pc = "done"
         /\ dataPuts = max_retries
         /\ dataSlept = delay_secs * (max_retries - 1)
         /\ result = Exhausted("upload_exhausted", max_retries, lastPut.err)
         /\ ~lastPut.ok /\ lastPut.err \in NetErrors
    /\ result.kind # "upload_failed"
    /\ archivePuts <= max_retries_archive
    /\ archiveSlept <= delay_secs * archiveFailed
    /\ archiveSlept <= delay_secs * (max_retries_archive - 1)
    /\ archiveFailed = max_retries_archive <=> p_result.kind = "archive_exhausted"
    /\ p_result.kind = "archive_exhausted" =>
         /\ pc \in {"p_return", "done"}
         /\ archivePuts = max_retries_archive
         /\ archiveSlept = delay_secs * (max_retries_archive - 1)
         /\ p_result = Exhausted("archive_exhausted", max_retries_archive,
                                 lastArchivePut.err)
         /\ ~lastArchivePut.ok /\ lastArchivePut.err \in NetErrors
    /\ p_result.kind # "archive_failed"

\* C2 witness: the archive command ended in the exhaustion error of its 50
\* archive puts.
C2_Witness ==
    /\ cmd = "archive"
    /\ pc = "done"
    /\ result = Exhausted("archive_exhausted", max_retries_archive, "quote_failed")

\* The same for the data put: an upload ended in the exhaustion error.
C2_WitnessUpload ==
    /\ pc = "done"
    /\ result = Exhausted("upload_exhausted", max_retries, "timeout")
    /\ dataPuts = max_retries

\* C3: in an upload the file is read, then the verify question is answered,
\* then the archive question, and only then is the first data put issued; no
\* question is asked (or asked again) once a data put has been issued.
C3_PromptsBeforePut ==
    [][ /\ dataPuts' # dataPuts =>
             fileRead /\ prompts = <<"verify", "archive">> /\ invalid = 0
        /\ (prompts' # prompts \/ invalid' # invalid) =>
             fileRead /\ dataPuts' = 0
        /\ prompts' # prompts =>
             prompts' \in {<<"verify">>, <<"verify", "archive">>} ]_vars

\* C3 witness: a second data put is due after both questions were answered.
C3_Witness ==
    /\ pc = "u_put"
    /\ dataPuts = 1
    /\ prompts = <<"verify", "archive">>
    /\ should_verify /\ ~should_archive

C5_ExhaustedUploadStops ==
    (cmd = "upload" /\ dataFailed = max_retries) =>
        /\ pc = "done"
        /\ result.status = "err"
        /\ gets = 0
        /\ archivePuts = 0
        /\ writes = <<>>

\* C5 witness: all 50 data puts failed in a run that asked for verification
\* and for an archive.
C5_Witness ==
    /\ dataFailed = max_retries
    /\ should_verify /\ should_archive
    /\ pc = "done"

\* C6: in archive-mode download, once the archive (N >= 1 entries) is loaded
\* and the output directory created, every entry is processed, the command
\* ends with success_count + error_count = N and returns success.  (The code
\* breaks this: a failed create_dir_all of an entry's parent directory returns
\* the error through `?`.)
C6_BatchNeverAborts ==
    (/\ cmd = "download"
     /\ archiveLoaded /\ dl_entries # <<>>
     /\ args.output_path \in dirs
     /\ pc = "done") =>
        /\ result = OkResult
        /\ idx = Len(dl_entries)
        /\ success_count + error_count = Len(dl_entries)

\* The target path of entry k of the downloaded archive.
TargetOf(k) == args.output_path \o dl_entries[k].path

\* C7 as stated: when the closing summary is printed for an archive of N
\* entries of which M failed to fetch, every entry was fetched exactly once,
\* the summary reports N-M successes and M failures, and exactly N-M entry
\* files have been written.
C7_SummaryCountsFetchFailures ==
    summary.printed =>
        LET N == Len(dl_entries)
            M == Cardinality(fetchFailed)
        IN  /\ \A k \in 1..N : entryGets[k] = 1
            /\ summary.succeeded = N - M
            /\ summary.failed = M
            /\ Cardinality(Written(writes)) = N - M

\* C7 as amended: in archive-mode download no entry is fetched more than
\* once, success_count is the number of entry files written and error_count
\* the number of entries whose fetch or whose write failed; when the closing
\* summary is printed for an archive of N entries of which M failed to fetch
\* and W were fetched but failed to be written, every entry was fetched
\* exactly once, the summary reports N-M-W successes and M+W failures, and
\* exactly the N-M-W other entries' files have been written.
C7_SummaryCountsFailures ==
    (cmd = "download" /\ args.archive) =>
        LET N == Len(dl_entries)
            M == Cardinality(fetchFailed)
            W == Cardinality(writeFailed)
        IN  /\ \A k \in DOMAIN entryGets : entryGets[k] <= 1
            /\ success_count = Cardinality(Written(writes))
            /\ error_count = M + W
            /\ fetchFailed \cap writeFailed = {}
            /\ summary.printed =>
                 /\ \A k \in 1..N : entryGets[k] = 1
                 /\ gets = N + 1
                 /\ summary.succeeded = N - M - W
                 /\ summary.failed = M + W
                 /\ {f[1] : f \in Written(writes)} =
                        {TargetOf(k) : k \in (1..N) \ (fetchFailed \cup writeFailed)}
                 /\ Cardinality(Written(writes)) = N - M - W

\* C7 witness: the summary of an archive of 3 entries: one failed to fetch,
\* one failed to be written, one was saved.
C7_Witness ==
    /\ summary.printed
    /\ Len(dl_entries) = 3
    /\ Cardinality(fetchFailed) = 1
    /\ Cardinality(writeFailed) = 1
    /\ summary.succeeded = 1

\* C8: when the archive fetched by an archive-mode download has no entries the
\* command has returned success without any file write or directory creation
\* and without any entry fetch: its only network operation is the one get of
\* the archive.
C8_EmptyArchive ==
    (cmd = "download" /\ archiveLoaded /\ dl_entries = <<>>) =>
        /\ pc = "done"
        /\ result = OkResult
        /\ writes = <<>>
        /\ dirs = {} /\ dirCalls = 0
        /\ gets = 1
        /\ dataPuts = 0 /\ archivePuts = 0

\* C8 witness: an archive-mode download whose archive had no entries.
C8_Witness ==
    /\ cmd = "download" /\ args.archive
    /\ archiveLoaded /\ dl_entries = <<>>
    /\ pc = "done"

\* The two files of the verification step, as C9 names them.
PrimaryFile == join(args.output_dir, file_name(args.file_path).val)
MismatchedFile == join(args.output_dir, file_name(args.file_path).val \o ".mismatched")

\* The verification step has fetched the data and is over.
VerificationDone ==
    /\ cmd = "upload"
    /\ verified.outcome \in {"match", "mismatch"}
    /\ pc # "u_compare"

\* C9 as stated, for a file path that has a base name and reading "is
\* written" as "the write is issued": after a verification fetch that
\* returned the original bytes B the one write issued is of
\* output_dir/<file name> with content B; after one that returned B' # B it is
\* of output_dir/<file name>.mismatched with content B'.
C9_VerifiedFileWritten ==
    (VerificationDone /\ file_name(args.file_path).some) =>
        /\ Len(writes) = 1
        /\ <<writes[1].path, writes[1].content>> =
              IF verified.outcome = "match"
              THEN <<PrimaryFile, original_data>>
              ELSE <<MismatchedFile, verified.fetched>>

\* C9 as amended: an upload writes nothing unless its verification fetch
\* succeeded.  After a successful fetch, if the file path has no base name
\* nothing is written; otherwise exactly one write was issued: of
\* output_dir/<file name> with content B when the fetch returned B, and of
\* output_dir/<name>.mismatched with content B' when it returned B' # B, where
\* <name> is the file name, or "downloaded_file_error" when the file name is
\* not valid UTF-8.  The other file is never written, and the file is on disk
\* with that content exactly when the write succeeded.
C9_VerifySavesOneFile ==
    cmd = "upload" =>
        /\ ~VerificationDone => writes = <<>>
        /\ VerificationDone =>
             LET name == file_name(args.file_path)
                 shown == IF name.val \in NonUtf8Names THEN "downloaded_file_error"
                          ELSE name.val
                 expect == IF verified.outcome = "match"
                           THEN <<PrimaryFile, original_data>>
                           ELSE <<join(args.output_dir, shown \o ".mismatched"),
                                  verified.fetched>>
             IN  /\ (verified.outcome = "match") <=> (verified.fetched = original_data)
                 /\ IF ~name.some
                    THEN writes = <<>>
                    ELSE /\ Len(writes) = 1
                         /\ <<writes[1].path, writes[1].content>> = expect
                         /\ Written(writes) = IF writes[1].ok THEN {expect} ELSE {}

\* C9 witness: a mismatch for a file whose name is not UTF-8 was saved.
C9_Witness ==
    /\ VerificationDone
    /\ verified.outcome = "mismatch"
    /\ file_name(args.file_path).val \in NonUtf8Names
    /\ Written(writes) = {<< <<".", "downloaded_file_error.mismatched">>, verified.fetched >>}

\* C10: an upload issues at most one get; when that get fails no file is
\* written, no other get is issued, and the failure does not make the command
\* fail: the run goes on to the archive step.
C10_SingleVerificationGet ==
    cmd = "upload" =>
        /\ gets <= 1
        /\ verified.outcome = "get_failed" =>
             /\ gets = 1
             /\ writes = <<>>
             /\ result.status # "err"
             /\ pc \notin {"u_verify", "u_compare"}

\* C10 witness: the verification get failed and the run went on to archive
\* the upload and return success.
C10_Witness ==
    /\ verified.outcome = "get_failed"
    /\ archive_upload_result.some
    /\ pc = "done" /\ result = OkResult

\* C11: in an upload a data_get_public is issued only when the verify prompt
\* was answered yes and an archive_put_public only when the archive prompt was
\* answered yes; a run that answered no to both and has ended issued between 1
\* and 50 data puts, exactly one when no put failed, no get and no archive put.
C11_PromptsGateNetworkCalls ==
    /\ gets > 0 => Len(prompts) = 2 /\ should_verify
    /\ archivePuts > 0 => Len(prompts) = 2 /\ should_archive
    /\ (Len(prompts) = 2 /\ ~should_verify /\ ~should_archive) =>
         /\ gets = 0 /\ archivePuts = 0 /\ submitted = {}
         /\ dataPuts <= max_retries
         /\ pc = "done" => dataPuts >= 1
         /\ (pc = "done" /\ dataFailed = 0) => dataPuts = 1

\* C11 witness: both prompts answered no, the first put succeeded, run ended.
C11_Witness ==
    /\ pc = "done" /\ result = OkResult
    /\ Len(prompts) = 2 /\ ~should_verify /\ ~should_archive
    /\ dataPuts = 1 /\ gets = 0 /\ archivePuts = 0

\* The 64-character hexadecimal strings, either case.
HexDigits == {"0", "1", "2", "3", "4", "5", "6", "7", "8", "9",
              "a", "b", "c", "d", "e", "f", "A", "B", "C", "D", "E", "F"}
IsHex64(s) == Len(s) = 2 * XorNameLen /\ \A i \in 1..Len(s) : s[i] \in HexDigits

\* The string a byte sequence is written as in lower-case hexadecimal.
hex_encode(b) ==
    [i \in 1..(2 * Len(b)) |->
        IF i % 2 = 1 THEN HexLower[(b[(i + 1) \div 2] \div 16) + 1]
        ELSE HexLower[(b[i \div 2] % 16) + 1]]

\* A hexadecimal string with its letters in lower case.
hex_lowercase(s) ==
    [i \in DOMAIN s |->
        CASE s[i] = "A" -> "a" [] s[i] = "B" -> "b" [] s[i] = "C" -> "c"
          [] s[i] = "D" -> "d" [] s[i] = "E" -> "e" [] s[i] = "F" -> "f"
          [] OTHER -> s[i]]

\* b is the 32 bytes that the hexadecimal string s writes.
IsDecodingOf(b, s) ==
    /\ Len(b) = XorNameLen
    /\ \A i \in 1..Len(b) : b[i] \in 0..255
    /\ hex_encode(b) = hex_lowercase(s)

\* The address argument of the archive and download commands.
AddressArg == IF cmd = "archive" THEN args.data_address_hex ELSE args.address_hex

\* handle_archive or handle_download has been entered and is past its parsing
\* of the address argument.
AddressParsed ==
    /\ cmd \in {"archive", "download"}
    /\ pc \notin {"main_init", "main_env", "main_wallet", "a_decode", "d_decode"}
    /\ result.kind \notin {"client_init", "env_missing", "wallet"}

\* C12: once handle_archive or handle_download has parsed its address
\* argument: if the argument is 64 hexadecimal characters the command goes on
\* with the 32 bytes it writes as its address (the address handed to
\* perform_archive_action, the address of the top-level get); for any other
\* string the command has ended in a validation error (not valid hex, or a
\* decoded length other than 32) and has issued no get, no put, no file write
\* and no directory creation.
C12_AddressValidated ==
    AddressParsed =>
        IF IsHex64(AddressArg)
        THEN /\ result.kind \notin {"invalid_hex", "invalid_length"}
             /\ cmd = "archive" => IsDecodingOf(p_args.data_addr, AddressArg)
             /\ (cmd = "download" /\ gets = 1 /\ \A k \in DOMAIN entryGets : entryGets[k] = 0)
                    => IsDecodingOf(lastGetAddr, AddressArg)
        ELSE /\ pc = "done" /\ result.status = "err"
             /\ result.kind \in {"invalid_hex", "invalid_length"}
             /\ result.kind = "invalid_length" <=>
                    /\ Len(AddressArg) % 2 = 0
                    /\ \A i \in 1..Len(AddressArg) : AddressArg[i] \in HexDigits
             /\ gets = 0 /\ dataPuts = 0 /\ archivePuts = 0
             /\ writes = <<>> /\ dirCalls = 0 /\ dirs = {}

\* C12 witness: a download whose mixed-case 64-character address was accepted
\* and whose top-level get has been issued.
C12_Witness ==
    /\ cmd = "download" /\ gets = 1 /\ pc \in {"d_mkdir", "d_single_dir"}
    /\ \E i \in 1..Len(args.address_hex) : args.address_hex[i] = "F"
    /\ lastGetAddr = [i \in 1..XorNameLen |-> 15]

\* C12 witness of the rejection: an archive command refused for the length of
\* its address.
C12_WitnessRejected ==
    /\ cmd = "archive" /\ pc = "done" /\ result.kind = "invalid_length"
    /\ Len(args.data_address_hex) = 62

\* data_get_public calls of a download that are not fetches of archive entries.
RECURSIVE SumTo(_, _)
SumTo(f, n) == IF n = 0 THEN 0 ELSE f[n] + SumTo(f, n - 1)
TopLevelGets == gets - SumTo(entryGets, Len(entryGets))

\* C13: a download issues its top-level fetch at most once and, once past it,
\* exactly once; a download that ended in the error of that fetch or, in
\* archive mode, of the deserialization, issued that one get and nothing else:
\* no create_dir_all, no directory, no write; a single-object download whose
\* write of output_path failed ended in an error.
C13_TopLevelFetchFatal ==
    /\ TopLevelGets <= 1
    /\ pc \notin {"main_init", "main_env", "main_wallet", "d_decode",
                  "d_get_archive", "d_get_single", "done"} => TopLevelGets = 1
    /\ result.kind \in {"get_archive", "deserialize", "get_single"} =>
         /\ pc = "done" /\ result.status = "err"
         /\ gets = 1
         /\ dirCalls = 0 /\ dirs = {} /\ writes = <<>>
         /\ ~archiveLoaded /\ ~summary.printed
         /\ result.kind = "get_single" <=> ~args.archive
    /\ (~args.archive /\ writes # <<>>) =>
         /\ Len(writes) = 1 /\ writes[1].path = args.output_path
         /\ pc = "done"
         /\ writes[1].ok <=> result = OkResult
         /\ ~writes[1].ok => result = ErrResult("write_single")

\* C13 witness: an archive download whose fetched bytes did not deserialize.
C13_Witness ==
    /\ pc = "done" /\ args.archive /\ result.kind = "deserialize" /\ gets = 1

\* C13 witness of the single-object write failure.
C13_WitnessWrite ==
    /\ pc = "done" /\ ~args.archive /\ result.kind = "write_single"
    /\ Len(writes) = 1 /\ ~writes[1].ok

\* The path whose base name keys the archive entry: the file uploaded, or the
\* archive command's archive_path.
ArchivedPath == IF cmd = "upload" THEN args.file_path ELSE args.archive_path

\* C14: every archive handed to archive_put_public in a run is the same
\* archive, with exactly one entry, keyed by the last component of the given
\* path; from an upload the entry's address is the one the successful data put
\* returned and its size the length of the file read; from the archive command
\* the address is the decoded argument and the size 0.
C14_OneEntryArchive ==
    /\ archivePuts = 0 <=> submitted = {}
    /\ archivePuts > 0 =>
         /\ submitted = {archive}
         /\ Cardinality(archive) = 1
         /\ \A e \in archive :
              /\ ArchivedPath # <<>>
              /\ e.path = <<ArchivedPath[Len(ArchivedPath)]>>
              /\ cmd = "upload" =>
                   /\ upload_result.some
                   /\ e.addr = upload_result.addr
                   /\ e.addr \in {o.addr : o \in PutOutcomes}
                   /\ e.metadata = [size |-> Len(original_data)]
              /\ cmd = "archive" =>
                   /\ IsDecodingOf(e.addr, args.data_address_hex)
                   /\ e.metadata = [size |-> 0]

\* C14 witness: an upload of a one-byte file whose archive was submitted three
\* times.
C14_Witness ==
    /\ cmd = "upload" /\ archivePuts = 3 /\ Len(original_data) = 1
    /\ submitted = {{[path |-> <<"a.txt">>, addr |-> upload_result.addr,
                      metadata |-> [size |-> 1]]}}

\* C14 witness for the archive command.
C14_WitnessArchive ==
    /\ cmd = "archive" /\ archivePuts = 2 /\ args.archive_path = <<"docs", "a.txt">>
    /\ submitted = {{[path |-> <<"a.txt">>, addr |-> [i \in 1..XorNameLen |-> 15],
                      metadata |-> [size |-> 0]]}}

\* Paths with no extractable base name: the empty path and those ending in `..`.
NoBaseName(p) == p = <<>> \/ p[Len(p)] = ".."

\* perform_archive_action has been called and is past building its archive.
ArchiveBuilt == p_args # NoPArgs /\ pc # "p_build"

\* C15: when perform_archive_action is given a path with no base name it
\* returns the missing-file-name error having issued no archive put and slept
\* no delay; and it returns that error for no other path.
C15_NoBaseNameNoPut ==
    /\ (ArchiveBuilt /\ NoBaseName(p_args.original_path)) =>
         /\ p_result = ErrResult("no_filename")
         /\ pc \in {"p_return", "done"}
         /\ archivePuts = 0 /\ archiveSlept = 0 /\ submitted = {}
         /\ archive = EmptyArchive
    /\ p_result.kind = "no_filename" =>
         ArchiveBuilt /\ NoBaseName(p_args.original_path)

\* C15 witness: the archive command given the path docs/.. has returned.
C15_Witness ==
    /\ cmd = "archive" /\ pc = "done" /\ args.archive_path = <<"docs", "..">>
    /\ p_result = ErrResult("no_filename") /\ archivePuts = 0 /\ archiveSlept = 0

\* An archive command that got past main's setup with a well-formed address
\* and has returned.
ArchiveCommandReturned ==
    /\ cmd = "archive" /\ pc = "done"
    /\ IsHex64(args.data_address_hex)
    /\ result.kind \notin {"client_init", "env_missing", "wallet"}

\* C16: an archive command given a well-formed address returns success
\* exactly when an archive put succeeded (within 50 attempts); a path with no
\* base name makes it return the missing-file-name error and 50 failed
\* attempts the exhaustion error; an upload whose archive step ended in either
\* error returns success all the same.
C16_ArchiveErrorsPropagate ==
    /\ ArchiveCommandReturned =>
         /\ result.status \in {"ok", "err"}
         /\ result = OkResult <=> archive_upload_result.some
         /\ result = OkResult <=> lastArchivePut.ok
         /\ result = OkResult => archivePuts \in 1..max_retries_archive
         /\ NoBaseName(args.archive_path) <=> result = ErrResult("no_filename")
         /\ archiveFailed = max_retries_archive <=>
                result = Exhausted("archive_exhausted", max_retries_archive,
                                   lastArchivePut.err)
         /\ result.status = "err" =>
                NoBaseName(args.archive_path) \/ archiveFailed = max_retries_archive
    /\ (cmd = "upload" /\ pc = "done" /\ p_result.status = "err") =>
         result = OkResult

\* C16 witness: an archive command whose 50 attempts all failed has returned
\* the exhaustion error.
C16_Witness ==
    /\ ArchiveCommandReturned
    /\ archivePuts = max_retries_archive /\ archiveFailed = max_retries_archive
    /\ result.kind = "archive_exhausted"

\* C16 witness of the contrast: an upload whose archive step was exhausted.
C16_WitnessUpload ==
    /\ cmd = "upload" /\ pc = "done" /\ result = OkResult
    /\ p_result.kind = "archive_exhausted"

\* C17 as stated: a command run without AUTONOMI_PRIVATE_KEY that has ended
\* ended in an error, and neither the client initialization nor any get or put
\* took place before.
C17_NoNetworkBeforeEnvError ==
    (env_key = "absent" /\ pc = "done") =>
        /\ result.status = "err"
        /\ ~client_ready
        /\ gets = 0 /\ dataPuts = 0 /\ archivePuts = 0

\* C17, amended: a command run without AUTONOMI_PRIVATE_KEY never gets past
\* main's setup: it issues no get and no put, asks no prompt and touches no
\* file, every state before the end has a next step, and it ends in an error:
\* that of Client::init when the initialization failed, and the missing
\* credential error exactly when the client had been initialized.
C17_NoStorageCallBeforeEnvError ==
    env_key = "absent" =>
        /\ pc \in {"main_init", "main_env", "done"}
        /\ pc # "done" => ENABLED Next
        /\ gets = 0 /\ dataPuts = 0 /\ archivePuts = 0
        /\ ~fileRead /\ prompts = <<>> /\ writes = <<>> /\ dirCalls = 0
        /\ pc = "done" =>
             /\ result \in {ErrResult("client_init"), ErrResult("env_missing")}
             /\ result = ErrResult("env_missing") <=> client_ready

\* C17 witness: the missing credential reported by a command whose client had
\* been initialized.
C17_Witness ==
    /\ env_key = "absent" /\ pc = "done"
    /\ result = ErrResult("env_missing") /\ client_ready

\* C18: in an upload every step issues at most one network call; a data put
\* is issued only while no data put has succeeded and no get or archive put
\* has been issued; the verification get only after a data put succeeded and
\* before any archive put, for the address that put returned; an archive put
\* only after a data put succeeded, with that address in the archive.
C18_PhasesInOrder ==
    [][ /\ (dataPuts' - dataPuts) + (gets' - gets) + (archivePuts' - archivePuts)
               \in {0, 1}
        /\ dataPuts' >= dataPuts /\ gets' >= gets /\ archivePuts' >= archivePuts
        /\ dataPuts' # dataPuts =>
             /\ ~upload_result.some
             /\ gets = 0 /\ archivePuts = 0
        /\ gets' # gets =>
             /\ upload_result.some /\ lastPut.ok
             /\ upload_result.addr = lastPut.addr
             /\ lastGetAddr' = upload_result.addr
             /\ archivePuts = 0
        /\ archivePuts' # archivePuts =>
             /\ upload_result.some /\ lastPut.ok
             /\ upload_result.addr = lastPut.addr
             /\ \A a \in submitted' : a # {} /\ \A e \in a : e.addr = upload_result.addr
      ]_vars

\* C18 witness: an upload that went through all three phases: two data puts,
\* the verification get, two archive puts.
C18_Witness ==
    /\ cmd = "upload" /\ dataPuts = 2 /\ gets = 1 /\ archivePuts = 2
    /\ lastGetAddr = upload_result.addr

\* An upload whose data put succeeded and whose archive prompt was answered
\* yes has ended.
ArchivingUploadEnded ==
    /\ cmd = "upload" /\ pc = "done"
    /\ upload_result.some /\ Len(prompts) = 2 /\ should_archive

C19_WitnessGetFailed ==
    /\ ArchivingUploadEnded /\ verified.outcome = "get_failed" /\ archivePuts >= 1

\* A bound on the number of steps an upload has left once both prompts are
\* answered: two per remaining attempt of a loop (the put and its sleep), one
\* for each statement after it.
StepsLeft ==
    CASE pc = "done" -> 0
      [] pc = "p_return" -> 1
      [] pc = "p_check" -> 2
      [] pc = "p_sleep" -> 2 * (max_retries_archive - p_attempt) + 3
      [] pc = "p_put" -> 2 * (max_retries_archive - p_attempt) + 4
      [] pc = "p_build" -> 2 * max_retries_archive + 3
      [] pc = "u_archive" -> 2 * max_retries_archive + 4
      [] pc = "u_compare" -> 2 * max_retries_archive + 5
      [] pc = "u_verify" -> 2 * max_retries_archive + 6
      [] pc = "u_check" -> 2 * max_retries_archive + 7
      [] pc = "u_sleep" ->
            2 * (max_retries - attempt) + 2 * max_retries_archive + 8
      [] pc = "u_put" ->
            2 * (max_retries - (IF attempt = 0 THEN 1 ELSE attempt))
                + 2 * max_retries_archive + 9
      [] OTHER -> 2 * max_retries + 2 * max_retries_archive + 8

\* C20: an upload issues at most 50 data puts, at most one get and at most 50
\* archive puts; once both prompts are answered every step brings it nearer
\* to its end (the number of steps left, a natural number, decreases), every
\* state before the end has a step to take, and the end is a success or an
\* error: given that every external call returns, the run terminates.
C20_UploadTerminates ==
    /\ [](/\ dataPuts <= max_retries
          /\ gets <= 1
          /\ archivePuts <= max_retries_archive
          /\ StepsLeft \in 0..(2 * max_retries + 2 * max_retries_archive + 8)
          /\ pc = "done" <=> result.status \in {"ok", "err"}
          /\ (Len(prompts) = 2 /\ pc # "done") => ENABLED NextUpload)
    /\ [][Len(prompts) = 2 => StepsLeft' < StepsLeft]_vars

\* C20 witness: the longest upload: 50 data puts, the verification get and 50
\* archive puts, ended.
C20_Witness ==
    /\ pc = "done" /\ Len(prompts) = 2
    /\ dataPuts = max_retries /\ gets = 1 /\ archivePuts = max_retries_archive
    /\ result = OkResult

====
